---------------------------- MODULE Spec2Model ----------------------------
(***************************************************************************)
(* State-machine model of the Zitel router manager (src/src/main.rs):      *)
(* authentication, the main menu, the one-shot commands and the dashboard  *)
(* loop with its page navigation.                                          *)
(*                                                                         *)
(* Text read from the terminal is a sequence of one-character strings, so  *)
(* that trim() and to_lowercase() are computed rather than assumed.  A     *)
(* JSON body is a function from field names to tagged values; a field the  *)
(* body does not carry is Null, which is what serde_json's index returns.  *)
(***************************************************************************)
EXTENDS Integers, Sequences, FiniteSets, TLC

VARIABLES
    pc,            \* where the program is suspended (a read_line or an .await)
    exit,          \* what main returned: "none" while running, "ok", or the error
    token,         \* main.rs:25  first component of authenticate()'s result
    auth_header,   \* main.rs:25  second component of authenticate()'s result
    auth_reply,    \* what the authentication endpoint answered (history)
    wire,          \* the HTTP request in flight, NoRequest when there is none
    response,      \* the result of the last api_request call
    menu_input,    \* main.rs:38  the line main read at the menu
    input,         \* main.rs:112/152/363  the line the running handler read
    current_page,  \* main.rs:126
    next_run,      \* number of Next commands, and nothing else, since the loop began
    console,       \* the messages printed by the last step
    view,          \* the display function the dashboard dispatched to last
    render         \* what the last display put on the screen, and from which fields

vars == <<pc, exit, token, auth_header, auth_reply, wire, response,
          menu_input, input, current_page, next_run, console, view, render>>

----------------------------------------------------------------------------
(* Program constants *)

BASE_URL == "http://192.168.0.1"
DEFAULT_DMZ_IP == <<"1","9","2",".","1","6","8",".","0",".","9","8">>
TOTAL_PAGES == 6
AUTH_URL == <<BASE_URL, "/authenticate.leano">>
API_URL == <<BASE_URL, "/api.leano">>
AUTH_BODY == <<"authenticate admin admin">>
GET_INDEX_DATA == <<"get_index_data">>
GET_NEIGHBOUR_CELL == <<"get_neighbour_cell">>

(* Values that stand for "does not exist" *)
NoToken == "<unbound>"
NoHeader == "<no Leano_Auth header>"
NoInput == <<"<unread>">>
NoRequest == [url |-> <<>>, auth |-> NoHeader, body |-> <<>>]
NoResult == [kind |-> "none", err |-> "", json |-> <<>>]
NoView == [arm |-> -1, fn |-> ""]
NoRender == [json |-> <<>>, keys |-> <<>>, rows |-> <<>>, cells |-> 0]

----------------------------------------------------------------------------
(* str::trim and str::to_lowercase *)

Whitespace == {" ", "\n", "\t", "\r"}

RECURSIVE TrimStart(_)
TrimStart(s) ==
    IF s # <<>> /\ Head(s) \in Whitespace THEN TrimStart(Tail(s)) ELSE s

RECURSIVE TrimEnd(_)
TrimEnd(s) ==
    IF s # <<>> /\ s[Len(s)] \in Whitespace
    THEN TrimEnd(SubSeq(s, 1, Len(s) - 1))
    ELSE s

Trim(s) == TrimEnd(TrimStart(s))

UpperCase == <<"A","B","C","D","E","F","G","H","I","J","K","L","M",
               "N","O","P","Q","R","S","T","U","V","W","X","Y","Z">>
LowerCase == <<"a","b","c","d","e","f","g","h","i","j","k","l","m",
               "n","o","p","q","r","s","t","u","v","w","x","y","z">>

LowerChar(c) ==
    IF \E i \in 1..26 : UpperCase[i] = c
    THEN LowerCase[CHOOSE i \in 1..26 : UpperCase[i] = c]
    ELSE c

(* Mutant: the command is compared as typed *)
ToLowercase_AsTyped(s) == s

ToLowercase(s) == [i \in 1..Len(s) |-> LowerChar(s[i])]

(* format!("<prefix>{}", arg) *)
Format(prefix, arg) == <<prefix>> \o arg

----------------------------------------------------------------------------
(* serde_json values *)

Fields == {"status", "token"}

Str(v) == [type |-> "string", val |-> v]
Num(v) == [type |-> "number", val |-> v]
Null == [type |-> "null", val |-> ""]

Index(json, key) == IF key \in DOMAIN json THEN json[key] ELSE Null
(* Mutant: any string counts as equal *)
ValueEqStr_AnyString(v, s) == v.type = "string"

ValueEqStr(v, s) == v.type = "string" /\ v.val = s
(* Mutant: the default is always taken *)
AsStrOr_AlwaysDefault(v, default) == default

AsStrOr(v, default) == IF v.type = "string" THEN v.val ELSE default

Json(status, tok) ==
    [f \in Fields |-> IF f = "status" THEN status ELSE tok]

Ok(json) == [kind |-> "ok", err |-> "", json |-> json]
Err(e) == [kind |-> "err", err |-> e, json |-> <<>>]

(* What the router may answer *)
AuthJsons ==
    { Json(s, t) : s \in {Str("success"), Str("failed"), Null},
                   t \in {Str("abc"), Str("xyz"), Str(""), Null, Num("7")} }
      \cup { [status |-> Str("success")] }
ApiJsons == { Json(s, Null) : s \in {Str("success"), Str("failed"), Null} }

(* Answers to get_index_data.  The values of recieve and sentt, which the  *)
(* program parses, are sequences of characters.                            *)
FullIndexData ==
    [status |-> Str("success"), code |-> Str("0"),
     recieve |-> Str(<<"2","0","4","8">>), sentt |-> Str(<<"7">>),
     TYPE |-> Str("LTE"), BAND |-> Str("B3"), CSQ |-> Str("21"), RSRP |-> Str("-95"),
     RSRQ |-> Str("-9"), SINR |-> Str("12"), RSSI |-> Str("-65"),
     IMEI |-> Str("356"), IMSI |-> Str("432"), ICCID |-> Str("8998"),
     APN |-> Str("net"), INTERNET |-> Str("up"),
     MCC |-> Str("432"), MNC |-> Str("11"), PCID |-> Str("301"),
     EARFCN |-> Str("42490"), TAC |-> Str("17"), ENODE |-> Str("9"), CELL |-> Str("2"),
     IPV4 |-> Str("10.0.0.2"), IPV6 |-> Str("fe80::1"), DNS1 |-> Str("8.8.8.8"),
     DNS2 |-> Str("1.1.1.1"), lanip |-> Str("192.168.0.1"),
     netmask |-> Str("255.255.255.0"),
     model |-> Str("ZT"), serial |-> Str("S1"), hardv |-> Str("h1"),
     sofv |-> Str("s1"), SYSUP |-> Str("100"), WANUP |-> Str("90"),
     ram |-> Str("64"), cpu1 |-> Str("3"), cpu2 |-> Str("4")]
IndexJsons ==
    { FullIndexData,
      [FullIndexData EXCEPT !.status = Str("failed")],
      [FullIndexData EXCEPT !.ICCID = Str(""), !.recieve = Str(<<>>),
                            !.IPV6 = Num("6"), !.cpu2 = Str("")],
      [f \in DOMAIN FullIndexData \ {"ICCID", "sentt", "TYPE", "serial"}
          |-> FullIndexData[f]],
      [FullIndexData EXCEPT !.recieve = Str(<<"1","2","k">>),
                            !.sentt = Num("9"), !.MCC = Null],
      [status |-> Str("failed"), code |-> Str("401")] }

(* Answers to get_neighbour_cell.  The value of lenghtt, which the program *)
(* parses, is a sequence of characters.                                    *)
CellFields(i, v) ==
    ("type" \o ToString(i)) :> Str(v) @@ ("band" \o ToString(i)) :> Str("B3") @@
    ("pcid" \o ToString(i)) :> Str("7") @@ ("rsrq" \o ToString(i)) :> Str("-9") @@
    ("rsrp" \o ToString(i)) :> Str("-95") @@ ("rsrppp" \o ToString(i)) :> Str("-60")
ThreeCells == CellFields(1, "LTE") @@ CellFields(2, "") @@ CellFields(3, "LTE")
                @@ ("type0" :> Str("LTE"))
NeighbourJsons ==
    { ("lenghtt" :> Str(<<"3">>)) @@ ThreeCells,
      ("lenghtt" :> Str(<<"2">>)) @@ ThreeCells,
      ("lenghtt" :> Str(<<"0">>)) @@ ThreeCells,
      ("lenghtt" :> Str(<<"+","1">>)) @@ ThreeCells,
      ("lenghtt" :> Str(<<"t","w","o">>)) @@ ThreeCells,
      ("lenghtt" :> Str(<<>>)) @@ ThreeCells,
      ("lenghtt" :> Num("3")) @@ ThreeCells,
      ThreeCells,
      ("lenghtt" :> Str(<<"2">>)) @@ CellFields(2, "NR") }
TransportErrors == {Err("transport"), Err("json")}
AuthResults == TransportErrors \cup { Ok(j) : j \in AuthJsons }
ApiResults == TransportErrors \cup { Ok(j) : j \in ApiJsons }
IndexResults == TransportErrors \cup { Ok(j) : j \in IndexJsons }
NeighbourResults == TransportErrors \cup { Ok(j) : j \in NeighbourJsons }

(* How a step that writes to the terminal and builds the HTTP client may   *)
(* end: "ok", a terminal error ("io") or a client-builder error ("build"). *)
TermResults == {"ok", "io"}
SendResults == {"ok", "io", "build"}

(* Lines the terminal may deliver; <<>> is end of input (read_line = Ok(0)) *)
MenuLines ==
    { <<"1","\n">>, <<"2","\n">>, <<"3","\n">>, <<"4","\n">>, <<"5","\n">>,
      <<" ","2"," ","\n">>, <<"7","\n">>, <<"q","\n">>, <<"\n">>, <<>> }
DashLines ==
    { <<"n","\n">>, <<"N","\n">>, <<"n","e","x","t","\n">>, <<" ","n"," ","\n">>,
      <<"p","\n">>, <<"P","r","e","v","\n">>,
      <<"p","r","e","v","i","o","u","s","\n">>,
      <<"q","\n">>, <<"Q","\n">>, <<"q","u","i","t","\n">>, <<"Q","U","I","T","\n">>,
      <<"x","\n">>, <<"n","n","\n">>, <<"2","\n">>, <<"\n">>, <<>> }
IpLines == { <<"\n">>, <<" ","\n">>, <<"1","0",".","7","\n">>, <<" ","1","0",".","7"," ","\n">>, <<>> }
EarfcnLines == { <<"\n">>, <<" ","\t","\n">>, <<"4","2","4","9","0","\n">>, <<" ","7"," ","\n">>, <<>> }

----------------------------------------------------------------------------
(* Dashboard paging, main.rs:138-146 and 155-164 *)

(* Mutant: Next does not wrap after the last page *)
NextPage_NoWrap(p) == p + 1

NextPage(p) == (p % TOTAL_PAGES) + 1
(* Mutant: Previous does not wrap before the first page *)
PrevPage_NoWrap(p) == (p - 1) % 256

PrevPage(p) == IF p = 1 THEN TOTAL_PAGES ELSE (p - 1) % 256

DisplayFns == <<"display_data_usage", "display_connection_info",
                "display_network_info", "display_cell_info",
                "display_ip_config", "display_system_info">>
Dispatch(p) ==
    IF p \in 1..6 THEN [arm |-> p, fn |-> DisplayFns[p]]
                  ELSE [arm |-> 0, fn |-> "display_network_info"]

----------------------------------------------------------------------------
(* str::parse::<u64>() and ::<usize>(), main.rs:185, 190, 342: an optional *)
(* "+" and then one or more decimal digits.  The texts of this model are   *)
(* short, so the overflow error of parse is not reached.                   *)

Digits == <<"0","1","2","3","4","5","6","7","8","9">>
IsDigit(c) == \E i \in 1..10 : Digits[i] = c
DigitValue(c) == (CHOOSE i \in 1..10 : Digits[i] = c) - 1

RECURSIVE DecimalValue(_)
DecimalValue(s) ==
    IF s = <<>> THEN 0
    ELSE 10 * DecimalValue(SubSeq(s, 1, Len(s) - 1)) + DigitValue(s[Len(s)])

ParseUnsigned(s) ==
    LET digits == IF s # <<>> /\ s[1] = "+" THEN Tail(s) ELSE s
    IN  IF digits # <<>> /\ \A i \in 1..Len(digits) : IsDigit(digits[i])
        THEN [ok |-> TRUE, val |-> DecimalValue(digits)]
        ELSE [ok |-> FALSE, val |-> 0]

(* format_bytes, main.rs:309-323: the unit chosen; the two-decimal         *)
(* rendering of the quotient is left as the pair of amount and unit.       *)
KB == 1024
MB == KB * 1024
GB == MB * 1024
FormatBytes(bytes) ==
    IF bytes >= GB THEN <<bytes, "GB">>
    ELSE IF bytes >= MB THEN <<bytes, "MB">>
    ELSE IF bytes >= KB THEN <<bytes, "KB">>
    ELSE <<bytes, "bytes">>

(* A printed row: the field it shows, its label and the value printed *)
Row(key, label, value) == [key |-> key, label |-> label, value |-> value]

(* print_table_row, main.rs:301-307 *)
PrintTableRow(json, key, label) ==
    IF Index(json, key).type = "string" /\ Index(json, key).val # ""
    THEN <<Row(key, label, Index(json, key).val)>>
    ELSE <<>>

(* The rows of a table: print_table_row on each <<key, label>> in turn *)
RECURSIVE PrintTableRows(_, _)
PrintTableRows(json, table) ==
    IF table = <<>> THEN <<>>
    ELSE PrintTableRow(json, table[1][1], table[1][2])
           \o PrintTableRows(json, Tail(table))

(* The counter rows of display_data_usage, main.rs:184-193 *)
CounterRow(json, key, label) ==
    IF Index(json, key).type = "string" /\ ParseUnsigned(Index(json, key).val).ok
    THEN <<Row(key, label, FormatBytes(ParseUnsigned(Index(json, key).val).val))>>
    ELSE <<>>

(* The fields each display function shows, main.rs:173-299 *)
DataUsageTable == << <<"recieve", "Received">>, <<"sentt", "Sent">> >>
ConnectionTable ==
    << <<"TYPE", "Type">>, <<"BAND", "Band">>, <<"CSQ", "Signal Quality">>,
       <<"RSRP", "RSRP">>, <<"RSRQ", "RSRQ">>, <<"SINR", "SINR">>,
       <<"RSSI", "RSSI">> >>
NetworkTable ==
    << <<"IMEI", "IMEI">>, <<"IMSI", "IMSI">>, <<"ICCID", "ICCID">>,
       <<"APN", "APN">>, <<"INTERNET", "Internet Status">> >>
CellTable ==
    << <<"MCC", "MCC">>, <<"MNC", "MNC">>, <<"PCID", "PCI">>,
       <<"EARFCN", "EARFCN">>, <<"TAC", "TAC">>, <<"ENODE", "eNodeB">>,
       <<"CELL", "Cell ID">> >>
IpConfigTable ==
    << <<"IPV4", "IPv4">>, <<"IPV6", "IPv6">>, <<"DNS1", "DNS1">>,
       <<"DNS2", "DNS2">>, <<"lanip", "LAN IP">>, <<"netmask", "Netmask">> >>
SystemTable ==
    << <<"model", "Model">>, <<"serial", "Serial">>, <<"hardv", "Hardware">>,
       <<"sofv", "Software">>, <<"SYSUP", "System Uptime (s)">>,
       <<"WANUP", "WAN Uptime (s)">>, <<"ram", "RAM (MB)">>,
       <<"cpu1", "CPU1 (%)">>, <<"cpu2", "CPU2 (%)">> >>

TableOf(fn) ==
    CASE fn = "display_data_usage" -> DataUsageTable
      [] fn = "display_connection_info" -> ConnectionTable
      [] fn = "display_network_info" -> NetworkTable
      [] fn = "display_cell_info" -> CellTable
      [] fn = "display_ip_config" -> IpConfigTable
      [] fn = "display_system_info" -> SystemTable

KeysOf(table) == [i \in 1..Len(table) |-> table[i][1]]

(* What the display function fn puts on the screen for json *)
Display(fn, json) ==
    [json |-> json,
     keys |-> KeysOf(TableOf(fn)),
     rows |-> IF fn = "display_data_usage"
              THEN CounterRow(json, "recieve", "Received")
                     \o CounterRow(json, "sentt", "Sent")
              ELSE PrintTableRows(json, TableOf(fn)),
     cells |-> 0]

(* The fields of neighbour cell i, main.rs:345-350 *)
NeighbourTable(i) ==
    << <<"type" \o ToString(i), "MCC">>, <<"band" \o ToString(i), "MNC">>,
       <<"pcid" \o ToString(i), "Band">>, <<"rsrq" \o ToString(i), "ARFCN">>,
       <<"rsrp" \o ToString(i), "PCI">>,
       <<"rsrppp" \o ToString(i), "Signal (dBm)">> >>

(* The loop over the cells from i to last, main.rs:343-352 *)
RECURSIVE CellLoop(_, _, _)
CellLoop(json, i, last) ==
    IF i > last THEN [keys |-> <<>>, rows |-> <<>>, cells |-> 0]
    ELSE LET rest == CellLoop(json, i + 1, last)
         IN  [keys |-> KeysOf(NeighbourTable(i)) \o rest.keys,
              rows |-> PrintTableRows(json, NeighbourTable(i)) \o rest.rows,
              cells |-> 1 + rest.cells]

(* Mutant: the cells are numbered from 0 *)
NeighbourCells_FromZero(json, count) == CellLoop(json, 0, count - 1)

(* for i in 1..=count, main.rs:343 *)
NeighbourCells(json, count) == CellLoop(json, 1, count)

(* What get_neighbour_cells puts on the screen, main.rs:339-354 *)
DisplayNeighbours(json) ==
    LET length == Index(json, "lenghtt")
        cells == IF length.type = "string" /\ ParseUnsigned(length.val).ok
                 THEN NeighbourCells(json, ParseUnsigned(length.val).val)
                 ELSE [keys |-> <<>>, rows |-> <<>>, cells |-> 0]
    IN  [json |-> json,
         keys |-> <<"lenghtt">> \o cells.keys,
         rows |-> (IF length.type = "string"
                   THEN <<Row("lenghtt", "Found neighbor cell(s)", length.val)>>
                   ELSE <<>>) \o cells.rows,
         cells |-> cells.cells]

(* Mutant: any command beginning with n is a Next command *)
IsNextCmd_Prefix(s) == s # <<>> /\ s[1] = "n"

IsNextCmd(s) == s \in { <<"n">>, <<"n","e","x","t">> }
IsPrevCmd(s) == s \in { <<"p">>, <<"p","r","e","v">>,
                        <<"p","r","e","v","i","o","u","s">> }
IsQuitCmd(s) == s \in { <<"q">>, <<"q","u","i","t">> }

----------------------------------------------------------------------------
(* Bound of the history variable next_run *)
MaxNextRun == 6

----------------------------------------------------------------------------
(* Building blocks shared by the handlers *)

Menu == <<"--- Menu ---", "Select option: ">>

(* A `?` that returns the error e out of main *)
Fail(e) == pc' = "failed" /\ exit' = e

(* Control comes back to the top of main's loop (main.rs:28-39): the menu  *)
(* is printed after `printed`, stdout flushed, and main blocks in          *)
(* read_line.                                                              *)
BackToMenu(t, printed) ==
    /\ console' = printed \o Menu
    /\ IF t = "ok" THEN pc' = "menu" /\ exit' = exit ELSE Fail("io")

(* Mutant: the request goes out with an empty Leano_Auth header *)
ApiSend_EmptyHeader(s, command, waiting) ==
    IF s = "ok"
    THEN /\ wire' = [url |-> API_URL, auth |-> "", body |-> command]
         /\ pc' = waiting
         /\ exit' = exit
    ELSE /\ wire' = wire
         /\ pc' = "failed" /\ exit' = s

(* api_request, main.rs:85-100, up to the .await of send(): the client is  *)
(* built and the request is handed to the network with auth_header as its  *)
(* Leano_Auth header.  s = "io" is a failed terminal write before the      *)
(* call, s = "build" a failed Client::builder().build().                   *)
ApiSend(s, command, waiting) ==
    IF s = "ok"
    THEN /\ wire' = [url |-> API_URL, auth |-> auth_header, body |-> command]
         /\ pc' = waiting
         /\ exit' = exit
    ELSE /\ wire' = wire
         /\ Fail(s)

(* The top of the dashboard loop, main.rs:129-136 *)
LoopTop(s) ==
    /\ console' = <<"=== Index Data - Page", "<clear>">>
    /\ render' = NoRender
    /\ ApiSend(s, GET_INDEX_DATA, "dash_wait")

----------------------------------------------------------------------------
Init ==
    /\ pc = "start"
    /\ exit = "none"
    /\ token = NoToken
    /\ auth_header = NoToken
    /\ auth_reply = NoResult
    /\ wire = NoRequest
    /\ response = NoResult
    /\ menu_input = NoInput
    /\ input = NoInput
    /\ current_page = 0
    /\ next_run = -1
    /\ console = <<>>
    /\ view = NoView
    /\ render = NoRender

(* main.rs:19-25 and authenticate, main.rs:60-72 *)
MainStart(s) ==
    /\ pc = "start"
    /\ console' = <<"=== Zitel Router Manager | Created by @Northvector ===">>
    /\ IF s = "ok"
       THEN /\ wire' = [url |-> AUTH_URL, auth |-> NoHeader, body |-> AUTH_BODY]
            /\ pc' = "auth_wait"
            /\ exit' = exit
       ELSE /\ wire' = wire
            /\ Fail(s)
    /\ UNCHANGED <<token, auth_header, auth_reply, response, menu_input, input,
                   current_page, next_run, view, render>>

(* Mutant: a response without a string token is rejected *)
AuthReturn_TokenRequired(r, t) ==
    /\ pc = "auth_wait"
    /\ wire' = NoRequest
    /\ auth_reply' = r
    /\ IF r.kind = "err"
       THEN /\ Fail(r.err)
            /\ UNCHANGED <<token, auth_header, console>>
       ELSE IF /\ ValueEqStr(Index(r.json, "status"), "success")
               /\ Index(r.json, "token").type = "string"
       THEN /\ token' = AsStrOr(Index(r.json, "token"), "")
            /\ auth_header' = AsStrOr(Index(r.json, "token"), "")
            /\ BackToMenu(t, <<"Authenticated successfully">>)
       ELSE /\ Fail("Authentication failed")
            /\ UNCHANGED <<token, auth_header, console>>
    /\ UNCHANGED <<response, menu_input, input, current_page, next_run, view, render>>

(* authenticate, main.rs:72-82, and main.rs:25-39 *)
AuthReturn(r, t) ==
    /\ pc = "auth_wait"
    /\ wire' = NoRequest
    /\ auth_reply' = r
    /\ IF r.kind = "err"
       THEN /\ Fail(r.err)
            /\ UNCHANGED <<token, auth_header, console>>
       ELSE IF ValueEqStr(Index(r.json, "status"), "success")
       THEN /\ token' = AsStrOr(Index(r.json, "token"), "")
            /\ auth_header' = AsStrOr(Index(r.json, "token"), "")
            /\ BackToMenu(t, <<"Authenticated successfully">>)
       ELSE /\ Fail("Authentication failed")
            /\ UNCHANGED <<token, auth_header, console>>
    /\ UNCHANGED <<response, menu_input, input, current_page, next_run, view, render>>

(* read_line fails, main.rs:39, 113, 153, 364 *)
ReadLineErr ==
    /\ pc \in {"menu", "dmz_read", "dash_read", "bl_read"}
    /\ Fail("io")
    /\ UNCHANGED <<token, auth_header, auth_reply, wire, response, menu_input,
                   input, current_page, next_run, console, view, render>>

(* main.rs:42 and set_dmz, main.rs:107-113 *)
MenuSetDmz(line, t) ==
    /\ pc = "menu"
    /\ Trim(line) = <<"1">>
    /\ menu_input' = line
    /\ input' = NoInput
    /\ console' = <<"<clear>", "Enter DMZ IP address">>
    /\ IF t = "ok" THEN pc' = "dmz_read" /\ exit' = exit ELSE Fail("io")
    /\ UNCHANGED <<token, auth_header, auth_reply, wire, response,
                   current_page, next_run, view>>
    /\ render' = NoRender

(* Mutant: the dashboard resumes on the page of the previous visit *)
MenuDashboard_KeepPage(line, s) ==
    /\ pc = "menu"
    /\ Trim(line) = <<"2">>
    /\ menu_input' = line
    /\ current_page' = IF current_page \in 1..TOTAL_PAGES THEN current_page ELSE 1
    /\ next_run' = 0
    /\ LoopTop(s)
    /\ UNCHANGED <<token, auth_header, auth_reply, response, input, view>>

(* main.rs:43 and get_index_data_loop, main.rs:126-136 *)
MenuDashboard(line, s) ==
    /\ pc = "menu"
    /\ Trim(line) = <<"2">>
    /\ menu_input' = line
    /\ current_page' = 1
    /\ next_run' = 0
    /\ LoopTop(s)
    /\ UNCHANGED <<token, auth_header, auth_reply, response, input, view>>

(* main.rs:44 and get_neighbour_cells, main.rs:327-333 *)
MenuNeighbour(line, s) ==
    /\ pc = "menu"
    /\ Trim(line) = <<"3">>
    /\ menu_input' = line
    /\ console' = <<"<clear>", "Fetching neighbor cells">>
    /\ ApiSend(s, GET_NEIGHBOUR_CELL, "nc_wait")
    /\ UNCHANGED <<token, auth_header, auth_reply, response, input,
                   current_page, next_run, view>>
    /\ render' = NoRender

(* main.rs:45 and set_band_lock, main.rs:360-364 *)
MenuBandLock(line, t) ==
    /\ pc = "menu"
    /\ Trim(line) = <<"4">>
    /\ menu_input' = line
    /\ input' = NoInput
    /\ console' = <<"Enter EARFCN to lock">>
    /\ IF t = "ok" THEN pc' = "bl_read" /\ exit' = exit ELSE Fail("io")
    /\ UNCHANGED <<token, auth_header, auth_reply, wire, response,
                   current_page, next_run, view, render>>

(* Mutant: after the farewell the menu is shown again *)
MenuExit_BackToMenu(line, t) ==
    /\ pc = "menu"
    /\ Trim(line) = <<"5">>
    /\ menu_input' = line
    /\ BackToMenu(t, <<"Goodbye!">>)
    /\ UNCHANGED <<token, auth_header, auth_reply, wire, response, input,
                   current_page, next_run, view, render>>

(* main.rs:46-49 and 55-56 *)
MenuExit(line, t) ==
    /\ pc = "menu"
    /\ Trim(line) = <<"5">>
    /\ menu_input' = line
    /\ console' = <<"Goodbye!">>
    /\ IF t = "ok" THEN pc' = "done" /\ exit' = "ok" ELSE Fail("io")
    /\ UNCHANGED <<token, auth_header, auth_reply, wire, response, input,
                   current_page, next_run, view, render>>

(* main.rs:50 and 28-39 *)
MenuInvalid(line, t) ==
    /\ pc = "menu"
    /\ Trim(line) \notin {<<"1">>, <<"2">>, <<"3">>, <<"4">>, <<"5">>}
    /\ menu_input' = line
    /\ BackToMenu(t, <<"Invalid option">>)
    /\ UNCHANGED <<token, auth_header, auth_reply, wire, response, input,
                   current_page, next_run, view, render>>

(* Mutant: the IP typed is sent as it is, also when it is empty *)
SetDmzInput_NoDefault(line, s) ==
    /\ pc = "dmz_read"
    /\ s \in {"ok", "build"}
    /\ input' = line
    /\ ApiSend(s, Format("set_dmz 1 tcpudp ", Trim(line)), "dmz_wait")
    /\ UNCHANGED <<token, auth_header, auth_reply, response, menu_input,
                   current_page, next_run, console, view, render>>

(* set_dmz, main.rs:113-119 *)
SetDmzInput(line, s) ==
    /\ pc = "dmz_read"
    /\ s \in {"ok", "build"}
    /\ input' = line
    /\ LET ip == IF Trim(line) = <<>> THEN DEFAULT_DMZ_IP ELSE Trim(line)
       IN  ApiSend(s, Format("set_dmz 1 tcpudp ", ip), "dmz_wait")
    /\ UNCHANGED <<token, auth_header, auth_reply, response, menu_input,
                   current_page, next_run, console, view, render>>

(* api_request, main.rs:100-103; set_dmz, main.rs:119-122; main.rs:42 *)
SetDmzReturn(r, t) ==
    /\ pc = "dmz_wait"
    /\ wire' = NoRequest
    /\ response' = r
    /\ IF r.kind = "err"
       THEN Fail(r.err) /\ console' = console
       ELSE BackToMenu(t, <<"Response">>)
    /\ UNCHANGED <<token, auth_header, auth_reply, menu_input, input,
                   current_page, next_run, view, render>>

(* Mutant: the loop refreshes by itself, without waiting for a command *)
DashReturn_AutoRefresh(r, t) ==
    /\ pc = "dash_wait"
    /\ wire' = NoRequest
    /\ response' = r
    /\ IF r.kind = "err"
       THEN /\ pc' = "failed" /\ exit' = r.err
            /\ UNCHANGED <<console, view, input, render>>
       ELSE /\ view' = Dispatch(current_page)
            /\ render' = Display(Dispatch(current_page).fn, r.json)
            /\ console' = <<Dispatch(current_page).fn>>
            /\ input' = NoInput
            /\ IF t = "ok" THEN pc' = "dash_sleep" /\ exit' = exit
                           ELSE pc' = "failed" /\ exit' = "io"
    /\ UNCHANGED <<token, auth_header, auth_reply, menu_input,
                   current_page, next_run>>

(* Mutant: an answer whose status is not "success" ends the program *)
DashReturn_StatusChecked(r, t) ==
    /\ pc = "dash_wait"
    /\ wire' = NoRequest
    /\ response' = r
    /\ IF r.kind = "err"
       THEN /\ Fail(r.err)
            /\ UNCHANGED <<console, view, input, render>>
       ELSE IF ~ValueEqStr(Index(r.json, "status"), "success")
       THEN /\ Fail("Request failed")
            /\ UNCHANGED <<console, view, input, render>>
       ELSE /\ view' = Dispatch(current_page)
            /\ render' = Display(Dispatch(current_page).fn, r.json)
            /\ console' = <<Dispatch(current_page).fn,
                            "Navigation: [N]ext, [P]revious, [Q]uit",
                            "Enter command: ">>
            /\ input' = NoInput
            /\ IF t = "ok" THEN pc' = "dash_read" /\ exit' = exit ELSE Fail("io")
    /\ UNCHANGED <<token, auth_header, auth_reply, menu_input,
                   current_page, next_run>>

(* Mutant: the answer of the iteration before is displayed once more *)
DashReturn_StaleFrame(r, t) ==
    /\ pc = "dash_wait"
    /\ wire' = NoRequest
    /\ response' = r
    /\ IF r.kind = "err"
       THEN /\ Fail(r.err)
            /\ UNCHANGED <<console, view, input, render>>
       ELSE /\ view' = Dispatch(current_page)
            /\ render' = Display(Dispatch(current_page).fn,
                                 IF response.kind = "ok" THEN response.json ELSE r.json)
            /\ console' = <<Dispatch(current_page).fn,
                            "Navigation: [N]ext, [P]revious, [Q]uit",
                            "Enter command: ">>
            /\ input' = NoInput
            /\ IF t = "ok" THEN pc' = "dash_read" /\ exit' = exit ELSE Fail("io")
    /\ UNCHANGED <<token, auth_header, auth_reply, menu_input,
                   current_page, next_run>>

(* api_request, main.rs:100-103; get_index_data_loop, main.rs:136-153 *)
DashReturn(r, t) ==
    /\ pc = "dash_wait"
    /\ wire' = NoRequest
    /\ response' = r
    /\ IF r.kind = "err"
       THEN /\ Fail(r.err)
            /\ UNCHANGED <<console, view, input, render>>
       ELSE /\ view' = Dispatch(current_page)
            /\ render' = Display(Dispatch(current_page).fn, r.json)
            /\ console' = <<Dispatch(current_page).fn,
                            "Navigation: [N]ext, [P]revious, [Q]uit",
                            "Enter command: ">>
            /\ input' = NoInput
            /\ IF t = "ok" THEN pc' = "dash_read" /\ exit' = exit ELSE Fail("io")
    /\ UNCHANGED <<token, auth_header, auth_reply, menu_input,
                   current_page, next_run>>

(* get_index_data_loop, main.rs:153-158 and 167 *)
DashNext(line) ==
    /\ pc = "dash_read"
    /\ IsNextCmd(ToLowercase(Trim(line)))
    /\ input' = line
    /\ current_page' = NextPage(current_page)
    /\ next_run' = IF next_run \in 0..(MaxNextRun - 1) THEN next_run + 1 ELSE -1
    /\ pc' = "dash_sleep"
    /\ UNCHANGED <<exit, token, auth_header, auth_reply, wire, response,
                   menu_input, console, view, render>>

(* get_index_data_loop, main.rs:153-155, 159-161 and 167 *)
DashPrev(line) ==
    /\ pc = "dash_read"
    /\ IsPrevCmd(ToLowercase(Trim(line)))
    /\ input' = line
    /\ current_page' = PrevPage(current_page)
    /\ next_run' = -1
    /\ pc' = "dash_sleep"
    /\ UNCHANGED <<exit, token, auth_header, auth_reply, wire, response,
                   menu_input, console, view, render>>

(* get_index_data_loop, main.rs:153-155, 162 and 170; main.rs:43, 28-39 *)
DashQuit(line, t) ==
    /\ pc = "dash_read"
    /\ IsQuitCmd(ToLowercase(Trim(line)))
    /\ input' = line
    /\ BackToMenu(t, <<>>)
    /\ UNCHANGED <<token, auth_header, auth_reply, wire, response, menu_input,
                   current_page, next_run, view, render>>

(* get_index_data_loop, main.rs:153-155, 163 and 167 *)
DashInvalid(line) ==
    /\ pc = "dash_read"
    /\ ~IsNextCmd(ToLowercase(Trim(line)))
    /\ ~IsPrevCmd(ToLowercase(Trim(line)))
    /\ ~IsQuitCmd(ToLowercase(Trim(line)))
    /\ input' = line
    /\ console' = <<"Invalid command">>
    /\ next_run' = -1
    /\ pc' = "dash_sleep"
    /\ UNCHANGED <<exit, token, auth_header, auth_reply, wire, response,
                   menu_input, current_page, view, render>>

(* get_index_data_loop, main.rs:167-168 and 129-136: the sleep is over *)
DashWake(s) ==
    /\ pc = "dash_sleep"
    /\ LoopTop(s)
    /\ UNCHANGED <<token, auth_header, auth_reply, response, menu_input, input,
                   current_page, next_run, view>>

(* api_request, main.rs:100-103; get_neighbour_cells, main.rs:333-356 *)
NeighbourReturn(r, t) ==
    /\ pc = "nc_wait"
    /\ wire' = NoRequest
    /\ response' = r
    /\ IF r.kind = "err"
       THEN Fail(r.err) /\ console' = console /\ render' = render
       ELSE BackToMenu(t, <<"NEIGHBOR CELLS">>) /\ render' = DisplayNeighbours(r.json)
    /\ UNCHANGED <<token, auth_header, auth_reply, menu_input, input,
                   current_page, next_run, view>>

(* Mutant: an empty EARFCN is sent like any other *)
BandLockEmpty_SendsAnyway(line, t) ==
    /\ pc = "bl_read"
    /\ Trim(line) = <<>>
    /\ input' = line
    /\ ApiSend(t, Format("set_band_lock ", Trim(line)), "bl_wait")
    /\ UNCHANGED <<token, auth_header, auth_reply, response, menu_input,
                   current_page, next_run, console, view, render>>

(* set_band_lock, main.rs:364-371; main.rs:45, 28-39 *)
BandLockEmpty(line, t) ==
    /\ pc = "bl_read"
    /\ Trim(line) = <<>>
    /\ input' = line
    /\ BackToMenu(t, <<"EARFCN cannot be empty">>)
    /\ UNCHANGED <<token, auth_header, auth_reply, wire, response, menu_input,
                   current_page, next_run, view, render>>

(* set_band_lock, main.rs:364-374 *)
BandLockInput(line, s) ==
    /\ pc = "bl_read"
    /\ s \in {"ok", "build"}
    /\ Trim(line) # <<>>
    /\ input' = line
    /\ ApiSend(s, Format("set_band_lock ", Trim(line)), "bl_wait")
    /\ UNCHANGED <<token, auth_header, auth_reply, response, menu_input,
                   current_page, next_run, console, view, render>>

(* api_request, main.rs:100-103; set_band_lock, main.rs:374-382; main.rs:45 *)
BandLockReturn(r, t) ==
    /\ pc = "bl_wait"
    /\ wire' = NoRequest
    /\ response' = r
    /\ IF r.kind = "err"
       THEN Fail(r.err) /\ console' = console
       ELSE BackToMenu(t, IF ValueEqStr(Index(r.json, "status"), "success")
                          THEN <<"Response", "Band locked successfully">>
                          ELSE <<"Response">>)
    /\ UNCHANGED <<token, auth_header, auth_reply, menu_input, input,
                   current_page, next_run, view, render>>

----------------------------------------------------------------------------
Next ==
    \/ \E s \in SendResults : MainStart(s)
    \/ \E r \in AuthResults, t \in TermResults : AuthReturn(r, t)
    \/ ReadLineErr
    \/ \E line \in MenuLines, t \in TermResults : MenuSetDmz(line, t)
    \/ \E line \in MenuLines, s \in SendResults : MenuDashboard(line, s)
    \/ \E line \in MenuLines, s \in SendResults : MenuNeighbour(line, s)
    \/ \E line \in MenuLines, t \in TermResults : MenuBandLock(line, t)
    \/ \E line \in MenuLines, t \in TermResults : MenuExit(line, t)
    \/ \E line \in MenuLines, t \in TermResults : MenuInvalid(line, t)
    \/ \E line \in IpLines, s \in SendResults : SetDmzInput(line, s)
    \/ \E r \in ApiResults, t \in TermResults : SetDmzReturn(r, t)
    \/ \E r \in IndexResults, t \in TermResults : DashReturn(r, t)
    \/ \E line \in DashLines : DashNext(line)
    \/ \E line \in DashLines : DashPrev(line)
    \/ \E line \in DashLines, t \in TermResults : DashQuit(line, t)
    \/ \E line \in DashLines : DashInvalid(line)
    \/ \E s \in SendResults : DashWake(s)
    \/ \E r \in NeighbourResults, t \in TermResults : NeighbourReturn(r, t)
    \/ \E line \in EarfcnLines, t \in TermResults : BandLockEmpty(line, t)
    \/ \E line \in EarfcnLines, s \in SendResults : BandLockInput(line, s)
    \/ \E r \in ApiResults, t \in TermResults : BandLockReturn(r, t)

Spec == Init /\ [][Next]_vars

----------------------------------------------------------------------------
(* Vocabulary of the properties.  The sets of lines are written out, so    *)
(* that they do not depend on how the program classifies a line.           *)

InDashboard == pc \in {"dash_wait", "dash_read", "dash_sleep"}

NextLines == { <<"n","\n">>, <<"N","\n">>, <<"n","e","x","t","\n">>,
               <<" ","n"," ","\n">> }
PrevLines == { <<"p","\n">>, <<"P","r","e","v","\n">>,
               <<"p","r","e","v","i","o","u","s","\n">> }
QuitLines == { <<"q","\n">>, <<"Q","\n">>, <<"q","u","i","t","\n">>,
               <<"Q","U","I","T","\n">> }
InvalidLines == { <<"x","\n">>, <<"n","n","\n">>, <<"2","\n">>, <<"\n">>, <<>> }

(* The authentication endpoint answered with status "success" *)
AuthSucceeded ==
    /\ auth_reply.kind = "ok"
    /\ auth_reply.json["status"] = [type |-> "string", val |-> "success"]

(* The token of the authentication response, "" when it carries none *)
RepliedToken ==
    IF "token" \in DOMAIN auth_reply.json /\ auth_reply.json["token"].type = "string"
    THEN auth_reply.json["token"].val
    ELSE ""

(* C1: no request to the command endpoint is in flight, and the program is *)
(* nowhere at or past the menu, unless the authentication endpoint has     *)
(* answered with status "success"; after a transport error, a non-JSON     *)
(* body or another status the program has ended and nothing is sent.       *)
C1_NoCommandBeforeAuth ==
    /\ ~AuthSucceeded => /\ pc \in {"start", "auth_wait", "failed"}
                         /\ wire.url # API_URL
    /\ (auth_reply # NoResult /\ ~AuthSucceeded) => pc = "failed" /\ wire = NoRequest

C1_Witness ==
    /\ AuthSucceeded
    /\ pc = "dash_wait"
    /\ wire.url = API_URL
    /\ wire.body = GET_INDEX_DATA

(* C2: every request to the command endpoint carries as Leano_Auth the     *)
(* token of the authentication response, and once authentication has       *)
(* returned, no step changes token or auth_header.                         *)
C2_AuthHeaderIsToken ==
    [][ /\ wire'.url = API_URL => wire'.auth = RepliedToken'
        /\ AuthSucceeded => token' = token /\ auth_header' = auth_header ]_vars

C2_Witness ==
    /\ pc = "bl_wait"
    /\ wire.auth = "xyz"
    /\ response.kind = "ok"
    /\ current_page = 4

(* C3: when the authentication response has status "success" and a string *)
(* token T, authenticate yields T (as token and as header); when its       *)
(* status is anything else, main ends with "Authentication failed" and no  *)
(* token is bound.                                                         *)
C3_Authenticate ==
    [][ (pc = "auth_wait" /\ auth_reply'.kind = "ok") =>
          /\ ( /\ auth_reply'.json["status"] = [type |-> "string", val |-> "success"]
               /\ "token" \in DOMAIN auth_reply'.json
               /\ auth_reply'.json["token"].type = "string" )
             => /\ token' = auth_reply'.json["token"].val
                /\ auth_header' = auth_reply'.json["token"].val
                /\ exit' # "Authentication failed"
          /\ auth_reply'.json["status"] # [type |-> "string", val |-> "success"]
             => /\ pc' = "failed"
                /\ exit' = "Authentication failed"
                /\ token' = NoToken
                /\ auth_header' = NoToken ]_vars

C3_Witness ==
    /\ pc = "menu"
    /\ auth_reply.kind = "ok"
    /\ "token" \in DOMAIN auth_reply.json
    /\ auth_reply.json["token"] = [type |-> "string", val |-> "abc"]
    /\ token = "abc"

(* C4: six Next commands in a row from the start of the dashboard loop     *)
(* lead back to page 1; Previous on page 1 leads to page 6; and on the     *)
(* page the loop is on, Previous undoes Next and Next undoes Previous.     *)
C4_PageCycle ==
    [][ /\ next_run' = 6 => current_page' = 1
        /\ (pc = "dash_read" /\ pc' = "dash_sleep" /\ current_page = 1
              /\ input' \in PrevLines) => current_page' = 6
        /\ (pc = "dash_read" /\ pc' = "dash_sleep" /\ input' \in NextLines)
              => /\ current_page' # current_page
                 /\ PrevPage(current_page') = current_page
        /\ (pc = "dash_read" /\ pc' = "dash_sleep" /\ input' \in PrevLines)
              => /\ current_page' # current_page
                 /\ NextPage(current_page') = current_page
        /\ InDashboard' => /\ PrevPage(NextPage(current_page')) = current_page'
                           /\ NextPage(PrevPage(current_page')) = current_page' ]_vars

C4_Witness ==
    /\ pc = "dash_read"
    /\ next_run = 6
    /\ current_page = 1

(* C5: in the dashboard loop the current page is one of 1..6, Next and     *)
(* Previous lead from it to one of 1..6, and what is displayed is the view *)
(* of that page, in the order DataUsage, Connection, Network, CellInfo,    *)
(* IPConfig, System, never through the fallback arm.                       *)
C5_PageInRange ==
    /\ InDashboard => /\ current_page \in 1..6
                      /\ NextPage(current_page) \in 1..6
                      /\ PrevPage(current_page) \in 1..6
    /\ view # NoView =>
          /\ view.arm \in 1..6
          /\ view.fn = <<"display_data_usage", "display_connection_info",
                         "display_network_info", "display_cell_info",
                         "display_ip_config", "display_system_info">>[view.arm]
    /\ pc = "dash_read" => view.arm = current_page

C5_Witness ==
    /\ pc = "dash_read"
    /\ current_page = 6
    /\ view.fn = "display_system_info"
    /\ next_run = -1

(* A step of the dashboard loop that reads no line from the terminal *)
DashStepWithoutInput ==
    \/ \E r \in IndexResults, t \in TermResults : DashReturn(r, t)
    \/ \E s \in SendResults : DashWake(s)

(* A get_index_data request goes out in this step *)
PollSent == wire = NoRequest /\ wire'.url = API_URL /\ wire'.body = GET_INDEX_DATA

C7_PollFailureBackToMenu ==
    [][ (pc = "dash_wait" /\ response'.kind = "err")
          => pc' = "menu" /\ wire' = NoRequest ]_vars

(* C8 as claimed: when a one-shot command fails, by a transport or         *)
(* protocol error or by a status other than "success", main is back at     *)
(* the menu with the same token and nothing in flight (unless the terminal *)
(* itself failed).                                                         *)
C8_CommandFailureBackToMenu ==
    [][ ( /\ pc \in {"dmz_wait", "nc_wait", "bl_wait"}
          /\ \/ response'.kind = "err"
             \/ "status" \notin DOMAIN response'.json
             \/ response'.json["status"] # [type |-> "string", val |-> "success"] )
          => \/ /\ pc' = "menu"
                /\ wire' = NoRequest
                /\ token' = token
                /\ auth_header' = auth_header
             \/ exit' = "io" ]_vars

(* C9: the step that reads a quit command in the dashboard ends the loop   *)
(* without another poll (main is at the menu, or has ended); a quit        *)
(* command read afterwards, at the menu, sends nothing and starts no       *)
(* dashboard loop.                                                         *)
C9_QuitEndsLoop ==
    [][ /\ (pc = "dash_read" /\ input' \in QuitLines)
              => /\ pc' \in {"menu", "failed"}
                 /\ wire' = NoRequest
                 /\ current_page' = current_page
        /\ (pc = "menu" /\ menu_input' \in QuitLines)
              => /\ pc' \in {"menu", "failed"}
                 /\ wire' = NoRequest
                 /\ current_page' = current_page ]_vars

C9_Witness ==
    /\ pc = "menu"
    /\ input = <<"Q","\n">>
    /\ menu_input = <<"q","\n">>
    /\ current_page = 2

(* C10: a line that is no Next, Previous or Quit command leaves the page   *)
(* as it is, prints "Invalid command" and leaves the loop running: it      *)
(* sleeps and polls again.                                                 *)
C10_InvalidCommand ==
    [][ /\ (pc = "dash_read" /\ input' \in InvalidLines)
              => /\ current_page' = current_page
                 /\ console' = <<"Invalid command">>
                 /\ pc' = "dash_sleep"
                 /\ exit' = "none"
        /\ (pc = "dash_sleep" /\ input \in InvalidLines /\ exit' = "none")
              => /\ pc' = "dash_wait"
                 /\ PollSent
                 /\ current_page' = current_page ]_vars

C10_Witness ==
    /\ pc = "dash_wait"
    /\ input = <<"n","n","\n">>
    /\ current_page = 3

(* The command body set_dmz is to send for each line of IpLines *)
DmzBodyFor(line) ==
    IF line \in { <<"\n">>, <<" ","\n">>, <<>> }
    THEN <<"set_dmz 1 tcpudp ", "1","9","2",".","1","6","8",".","0",".","9","8">>
    ELSE <<"set_dmz 1 tcpudp ", "1","0",".","7">>

(* C11: set_dmz sends "set_dmz 1 tcpudp 192.168.0.98" for an empty or      *)
(* blank line and "set_dmz 1 tcpudp <trimmed ip>" otherwise, to the        *)
(* command endpoint with the session token; it sends that one request in   *)
(* the step that reads the line and none when the answer arrives.          *)
C11_SetDmzBody ==
    [][ /\ (pc = "dmz_read" /\ exit' = "none")
              => /\ wire = NoRequest
                 /\ wire'.url = API_URL
                 /\ wire'.auth = RepliedToken
                 /\ wire'.body = DmzBodyFor(input')
                 /\ pc' = "dmz_wait"
        /\ (pc = "dmz_read" /\ exit' # "none") => wire' = NoRequest
        /\ pc = "dmz_wait" => wire' = NoRequest ]_vars

C11_Witness ==
    /\ pc = "dmz_wait"
    /\ input = <<" ","\n">>
    /\ wire.auth = "abc"
    /\ wire.body = <<"set_dmz 1 tcpudp ", "1","9","2",".","1","6","8",".","0",".","9","8">>

(* The field lenghtt of a get_neighbour_cell answer, Null when absent *)
LengthOf(json) == IF "lenghtt" \in DOMAIN json THEN json["lenghtt"] ELSE Null

(* The numeric and the non-numeric texts of lenghtt in NeighbourJsons *)
NumericLengths == <<"3">> :> 3 @@ <<"2">> :> 2 @@ <<"0">> :> 0
NonNumericLengths == { <<"t","w","o">>, <<>> }

(* The numbered fields with the suffixes 1..n *)
NumberedFields(n) ==
    { prefix \o ToString(i) :
        prefix \in {"type", "band", "pcid", "rsrq", "rsrp", "rsrppp"}, i \in 1..n }

(* C12: when lenghtt is the text of a number N, get_neighbour_cells shows  *)
(* N cells and reads, besides lenghtt, the numbered fields with suffixes   *)
(* 1..N, each once, and no other; when lenghtt is no number or absent it   *)
(* shows no cell, reads no numbered field and returns to the menu.         *)
C12_NeighbourIndexing ==
    [][ (pc = "nc_wait" /\ response'.kind = "ok") =>
          LET len == LengthOf(response'.json)
              read == render'.keys
          IN  /\ (len.type = "string" /\ len.val \in DOMAIN NumericLengths)
                    => /\ render'.cells = NumericLengths[len.val]
                       /\ read[1] = "lenghtt"
                       /\ Len(read) = 1 + 6 * NumericLengths[len.val]
                       /\ { read[k] : k \in 2..Len(read) }
                             = NumberedFields(NumericLengths[len.val])
              /\ (len.type = "null" \/ (len.type = "string" /\ len.val \in NonNumericLengths))
                    => /\ render'.cells = 0
                       /\ read = <<"lenghtt">>
                       /\ (pc' = "menu" \/ exit' = "io") ]_vars

C12_Witness ==
    /\ pc = "menu"
    /\ response.kind = "ok"
    /\ LengthOf(response.json) = [type |-> "string", val |-> <<"3">>]
    /\ render.cells = 3
    /\ Len(render.keys) = 19

(* Whether the text of field key is empty; the parsed fields hold          *)
(* sequences of characters, the others strings.                            *)
IsEmptyText(key, text) ==
    IF key \in {"lenghtt", "recieve", "sentt"} THEN text = <<>> ELSE text = ""

(* The field key of json is missing (or no string) or the empty string *)
MissingOrEmpty(json, key) ==
    \/ key \notin DOMAIN json
    \/ json[key].type # "string"
    \/ IsEmptyText(key, json[key].val)

(* C13 as claimed: no row on the screen shows a field that the displayed   *)
(* answer lacks or carries as the empty string; this for the dashboard     *)
(* tables, the counters recieve and sentt, and the neighbour cells with    *)
(* lenghtt.                                                                *)
C13_EmptyFieldsOmitted ==
    \A k \in 1..Len(render.rows) :
        ~MissingOrEmpty(render.json, render.rows[k].key)

(* The answer on display reports a failure of the router *)
FailureReported(result) ==
    /\ result.kind = "ok"
    /\ \/ "status" \notin DOMAIN result.json
       \/ result.json["status"] # [type |-> "string", val |-> "success"]

(* The same answer, had the router reported success *)
AsSuccess(json) == [json EXCEPT !["status"] = [type |-> "string", val |-> "success"]]

(* The display function of each page, main.rs:138-146 *)
PageFns == <<"display_data_usage", "display_connection_info",
             "display_network_info", "display_cell_info",
             "display_ip_config", "display_system_info">>

(* C14: a get_index_data answer whose status is not "success" is no error: *)
(* the program does not end on it, it is displayed with the rows the same  *)
(* answer would get with status "success", the loop then waits for a       *)
(* command and after a command other than quit polls again; the token is   *)
(* kept, no request to the authentication endpoint goes out, and the       *)
(* request is not sent again before a command is read.                     *)
C14_FailedStatusRendered ==
    [][ /\ (pc = "dash_wait" /\ FailureReported(response'))
            => /\ exit' \in {"none", "io"}
               /\ exit' = "none" => pc' = "dash_read"
               /\ render'.json = response'.json
               /\ render'.rows =
                    Display(PageFns[current_page], AsSuccess(response'.json)).rows
               /\ wire' = NoRequest
               /\ token' = token /\ auth_header' = auth_header
        /\ (pc = "dash_read" /\ FailureReported(response)
              /\ input' \in NextLines \cup PrevLines \cup InvalidLines)
            => pc' = "dash_sleep" /\ wire' = NoRequest /\ token' = token
        /\ (pc = "dash_sleep" /\ FailureReported(response) /\ exit' = "none")
            => PollSent /\ wire'.auth = RepliedToken /\ pc' = "dash_wait"
        /\ InDashboard => wire'.url # AUTH_URL ]_vars

C14_Witness ==
    /\ pc = "dash_wait"
    /\ FailureReported(response)
    /\ input = <<"n","\n">>
    /\ current_page = 2
    /\ wire.body = GET_INDEX_DATA

(* C15: each iteration of the dashboard loop has one get_index_data        *)
(* request in flight, and none while it displays or reads; the answer is   *)
(* displayed by the function of the page current when it arrives; what is  *)
(* on display is the answer received last; and the next request goes out   *)
(* only after that answer has been displayed.                              *)
C15_RenderedInOrder ==
    [][ /\ pc' = "dash_wait" => wire'.url = API_URL /\ wire'.body = GET_INDEX_DATA
        /\ pc' \in {"dash_read", "dash_sleep"} => wire' = NoRequest
        /\ wire # NoRequest => wire' \in {wire, NoRequest}
        /\ (pc = "dash_wait" /\ response'.kind = "ok")
            => /\ render' = Display(PageFns[current_page], response'.json)
               /\ render'.json = response'.json
               /\ view'.arm = current_page
               /\ current_page' = current_page
        /\ (InDashboard' /\ render' # NoRender) => render'.json = response'.json
        /\ (PollSent /\ pc = "dash_sleep")
            => response.kind = "ok" /\ render.json = response.json ]_vars

C15_Witness ==
    /\ pc = "dash_read"
    /\ current_page = 3
    /\ input = NoInput
    /\ response.kind = "ok"
    /\ "ICCID" \notin DOMAIN response.json
    /\ render.json = response.json
    /\ render.keys = <<"IMEI", "IMSI", "ICCID", "APN", "INTERNET">>
    /\ Len(render.rows) = 4

(* C16 as claimed: the dashboard is entered on page 1, and it is left only *)
(* by a step that reads a quit command.                                    *)
C16_OnlyQuitEndsLoop ==
    [][ /\ (pc = "menu" /\ pc' = "dash_wait") => current_page' = 1
        /\ (InDashboard /\ ~InDashboard')
              => pc = "dash_read" /\ input' \in QuitLines ]_vars

(* C16 as amended: the dashboard is entered on page 1, whatever page the   *)
(* previous visit was on; a Next, Previous or invalid command does not     *)
(* leave it; and it is left only by a step that reads a quit command or by *)
(* the failure of a poll, of the terminal or of the client builder.        *)
C16_EntryOnPageOne ==
    [][ /\ (pc = "menu" /\ pc' = "dash_wait")
              => /\ current_page' = 1
                 /\ PollSent
        /\ (pc = "dash_read"
              /\ input' \in NextLines \cup PrevLines \cup InvalidLines)
              => InDashboard'
        /\ (InDashboard /\ ~InDashboard')
              => \/ pc = "dash_read" /\ input' \in QuitLines
                 \/ exit = "none" /\ exit' \in {"io", "build", "transport", "json"} ]_vars

C16_Witness ==
    /\ pc = "dash_wait"
    /\ current_page = 1
    /\ view.arm = 4
    /\ input \in QuitLines
    /\ menu_input = <<" ","2"," ","\n">>

(* The authentication response has status "success" and no string token *)
TokenMissing(result) ==
    /\ result.kind = "ok"
    /\ result.json["status"] = [type |-> "string", val |-> "success"]
    /\ \/ "token" \notin DOMAIN result.json
       \/ result.json["token"].type # "string"

(* C17: on a response with status "success" that has no token field, or a  *)
(* token that is no string, authenticate succeeds with the empty string as *)
(* token and the program goes on to the menu; every request sent from then *)
(* on goes to the command endpoint with an empty Leano_Auth header.        *)
C17_EmptyTokenAccepted ==
    [][ /\ (pc = "auth_wait" /\ TokenMissing(auth_reply'))
              => /\ token' = ""
                 /\ auth_header' = ""
                 /\ exit' \in {"none", "io"}
                 /\ exit' = "none" => pc' = "menu"
        /\ (TokenMissing(auth_reply) /\ wire = NoRequest /\ wire' # NoRequest)
              => /\ wire'.url = API_URL
                 /\ wire'.auth = ""
                 /\ wire'.body # <<>> ]_vars

C17_Witness ==
    /\ pc = "nc_wait"
    /\ auth_reply.kind = "ok"
    /\ "token" \notin DOMAIN auth_reply.json
    /\ token = ""
    /\ wire.url = API_URL
    /\ wire.auth = ""

(* C18: on an EARFCN line that is empty or only white space, set_band_lock *)
(* sends nothing, prints "EARFCN cannot be empty" and control is back at   *)
(* the menu with token and header as they were; on any other line one      *)
(* request goes out, with the body "set_band_lock " followed by the        *)
(* trimmed line, and no second one before its answer.                      *)
C18_BandLock ==
    [][ /\ (pc = "bl_read" /\ input' \in { <<"\n">>, <<" ","\t","\n">>, <<>> })
              => /\ wire' = NoRequest
                 /\ console'[1] = "EARFCN cannot be empty"
                 /\ pc' = "menu" \/ exit' = "io"
                 /\ token' = token /\ auth_header' = auth_header
                 /\ auth_reply' = auth_reply
        /\ (pc = "bl_read" /\ exit' = "none"
              /\ input' \in { <<"4","2","4","9","0","\n">>, <<" ","7"," ","\n">> })
              => /\ wire = NoRequest
                 /\ wire'.url = API_URL
                 /\ wire'.auth = RepliedToken
                 /\ wire'.body = IF input' = <<" ","7"," ","\n">>
                                 THEN <<"set_band_lock ", "7">>
                                 ELSE <<"set_band_lock ", "4","2","4","9","0">>
                 /\ pc' = "bl_wait"
        /\ pc = "bl_wait" => wire' = NoRequest ]_vars

C18_Witness ==
    /\ pc = "menu"
    /\ input = <<" ","\t","\n">>
    /\ menu_input = <<"4","\n">>
    /\ console = <<"EARFCN cannot be empty">> \o Menu
    /\ wire = NoRequest

(* C19: in the menu a line other than 1..5 sends no request, leaves token  *)
(* and header as they were and the menu is printed again; on option 5 the  *)
(* program ends without sending, and once it has ended no request is in    *)
(* flight and no step follows.                                             *)
C19_MenuFrame ==
    [][ /\ (pc = "menu"
              /\ menu_input' \in { <<"7","\n">>, <<"q","\n">>, <<"\n">>, <<>> })
              => /\ wire' = NoRequest
                 /\ token' = token /\ auth_header' = auth_header
                 /\ exit' = "none"
                      => /\ pc' = "menu"
                         /\ console' = <<"Invalid option", "--- Menu ---",
                                         "Select option: ">>
        /\ (pc = "menu" /\ menu_input' = <<"5","\n">>)
              => /\ wire' = NoRequest
                 /\ pc' \in {"done", "failed"}
                 /\ exit' \in {"ok", "io"}
        /\ pc = "done" => wire = NoRequest /\ wire' = NoRequest /\ pc' = "done" ]_vars

C19_Witness ==
    /\ pc = "menu"
    /\ menu_input = <<"7","\n">>
    /\ console = <<"Invalid option", "--- Menu ---", "Select option: ">>
    /\ token = "abc"
    /\ response.kind = "ok"

=============================================================================
